---- MODULE Spec2Model ----
(***************************************************************************)
(* A model of the screenshot renamer of src/main.py: the watchdog handler  *)
(* SmartRenamer, its thread pool of three workers, and the per-file        *)
(* pipeline process_file (stability wait, description request, sanitizer,  *)
(* collision-safe rename, notification); the main program around them     *)
(* (preflight, observer, interrupt, exit); and the matcher, the sanitizer  *)
(* and the path computation of rename_file applied to inputs of every      *)
(* shape.                                                                  *)
(*                                                                         *)
(* Text is modelled as sequences of one-character strings, so that the     *)
(* path and name computations of the program are computed, not assumed.    *)
(***************************************************************************)
EXTENDS Integers, Sequences, FiniteSets, TLC

(***************************************************************************)
(* Bounds of the exploration.                                              *)
(***************************************************************************)
\* Matched events delivered in the scenario that saturates the pool.
MaxTasks == 4
\* Matched events delivered in the scenario where whole pipelines race.
RaceTasks == 2
\* Matched events delivered in the scenario that follows one stability wait
\* poll by poll.
WaitTasks == 1
\* Matched events delivered in the scenario that follows the main thread
\* from the start of the process to its end.
MainTasks == 1
\* Texts handed to the sanitizer are made of at most MaxPieces pieces.
MaxPieces == 3
\* The folder rename_file computes a destination in holds any of the first
\* MaxTaken paths the loop tries.
MaxTaken == 2
\* File sizes the environment shows to os.path.getsize are 0..MaxSize.
MaxSize == 1
\* Seconds one iteration of the polling loop takes on a slow machine (the
\* sleep of one second is a lower bound, not an exact duration).
SlowPoll == 5

(***************************************************************************)
(* Characters and strings.                                                 *)
(***************************************************************************)
\* A character is a string: itself when its code point is below 256, the
\* name of its code point (as "U+0662") above, where a string cannot hold it.
\*
\* The characters str.lower() changes, and below what it changes them to:
\* the letters of ASCII and Latin-1, and, of the letters above, one each of
\* Latin Extended, Greek and Cyrillic.
UpperCase ==
    <<"A", "B", "C", "D", "E", "F", "G", "H", "I", "J", "K", "L", "M", "N",
      "O", "P", "Q", "R", "S", "T", "U", "V", "W", "X", "Y", "Z", "À", "Á",
      "Â", "Ã", "Ä", "Å", "Æ", "Ç", "È", "É", "Ê", "Ë", "Ì", "Í", "Î", "Ï",
      "Ð", "Ñ", "Ò", "Ó", "Ô", "Õ", "Ö", "Ø", "Ù", "Ú", "Û", "Ü", "Ý", "Þ",
      "U+0178", "U+0394", "U+0414">>

LowerCase ==
    <<"a", "b", "c", "d", "e", "f", "g", "h", "i", "j", "k", "l", "m", "n",
      "o", "p", "q", "r", "s", "t", "u", "v", "w", "x", "y", "z", "à", "á",
      "â", "ã", "ä", "å", "æ", "ç", "è", "é", "ê", "ë", "ì", "í", "î", "ï",
      "ð", "ñ", "ò", "ó", "ô", "õ", "ö", "ø", "ù", "ú", "û", "ü", "ý", "þ",
      "ÿ", "U+03B4", "U+0434">>

\* The class \d of a str pattern: every decimal digit of Unicode.
Digits ==
    {"0", "1", "2", "3", "4", "5", "6", "7", "8", "9", "U+0660", "U+0661",
     "U+0662", "U+0663", "U+0664", "U+0665", "U+0666", "U+0667", "U+0668",
     "U+0669", "U+06F0", "U+06F1", "U+06F2", "U+06F3", "U+06F4", "U+06F5",
     "U+06F6", "U+06F7", "U+06F8", "U+06F9", "U+07C0", "U+07C1", "U+07C2",
     "U+07C3", "U+07C4", "U+07C5", "U+07C6", "U+07C7", "U+07C8", "U+07C9",
     "U+0966", "U+0967", "U+0968", "U+0969", "U+096A", "U+096B", "U+096C",
     "U+096D", "U+096E", "U+096F", "U+09E6", "U+09E7", "U+09E8", "U+09E9",
     "U+09EA", "U+09EB", "U+09EC", "U+09ED", "U+09EE", "U+09EF", "U+0A66",
     "U+0A67", "U+0A68", "U+0A69", "U+0A6A", "U+0A6B", "U+0A6C", "U+0A6D",
     "U+0A6E", "U+0A6F", "U+0AE6", "U+0AE7", "U+0AE8", "U+0AE9", "U+0AEA",
     "U+0AEB", "U+0AEC", "U+0AED", "U+0AEE", "U+0AEF", "U+0B66", "U+0B67",
     "U+0B68", "U+0B69", "U+0B6A", "U+0B6B", "U+0B6C", "U+0B6D", "U+0B6E",
     "U+0B6F", "U+0BE6", "U+0BE7", "U+0BE8", "U+0BE9", "U+0BEA", "U+0BEB",
     "U+0BEC", "U+0BED", "U+0BEE", "U+0BEF", "U+0C66", "U+0C67", "U+0C68",
     "U+0C69", "U+0C6A", "U+0C6B", "U+0C6C", "U+0C6D", "U+0C6E", "U+0C6F",
     "U+0CE6", "U+0CE7", "U+0CE8", "U+0CE9", "U+0CEA", "U+0CEB", "U+0CEC",
     "U+0CED", "U+0CEE", "U+0CEF", "U+0D66", "U+0D67", "U+0D68", "U+0D69",
     "U+0D6A", "U+0D6B", "U+0D6C", "U+0D6D", "U+0D6E", "U+0D6F", "U+0DE6",
     "U+0DE7", "U+0DE8", "U+0DE9", "U+0DEA", "U+0DEB", "U+0DEC", "U+0DED",
     "U+0DEE", "U+0DEF", "U+0E50", "U+0E51", "U+0E52", "U+0E53", "U+0E54",
     "U+0E55", "U+0E56", "U+0E57", "U+0E58", "U+0E59", "U+0ED0", "U+0ED1",
     "U+0ED2", "U+0ED3", "U+0ED4", "U+0ED5", "U+0ED6", "U+0ED7", "U+0ED8",
     "U+0ED9", "U+0F20", "U+0F21", "U+0F22", "U+0F23", "U+0F24", "U+0F25",
     "U+0F26", "U+0F27", "U+0F28", "U+0F29", "U+1040", "U+1041", "U+1042",
     "U+1043", "U+1044", "U+1045", "U+1046", "U+1047", "U+1048", "U+1049",
     "U+1090", "U+1091", "U+1092", "U+1093", "U+1094", "U+1095", "U+1096",
     "U+1097", "U+1098", "U+1099", "U+17E0", "U+17E1", "U+17E2", "U+17E3",
     "U+17E4", "U+17E5", "U+17E6", "U+17E7", "U+17E8", "U+17E9", "U+1810",
     "U+1811", "U+1812", "U+1813", "U+1814", "U+1815", "U+1816", "U+1817",
     "U+1818", "U+1819", "U+1946", "U+1947", "U+1948", "U+1949", "U+194A",
     "U+194B", "U+194C", "U+194D", "U+194E", "U+194F", "U+19D0", "U+19D1",
     "U+19D2", "U+19D3", "U+19D4", "U+19D5", "U+19D6", "U+19D7", "U+19D8",
     "U+19D9", "U+1A80", "U+1A81", "U+1A82", "U+1A83", "U+1A84", "U+1A85",
     "U+1A86", "U+1A87", "U+1A88", "U+1A89", "U+1A90", "U+1A91", "U+1A92",
     "U+1A93", "U+1A94", "U+1A95", "U+1A96", "U+1A97", "U+1A98", "U+1A99",
     "U+1B50", "U+1B51", "U+1B52", "U+1B53", "U+1B54", "U+1B55", "U+1B56",
     "U+1B57", "U+1B58", "U+1B59", "U+1BB0", "U+1BB1", "U+1BB2", "U+1BB3",
     "U+1BB4", "U+1BB5", "U+1BB6", "U+1BB7", "U+1BB8", "U+1BB9", "U+1C40",
     "U+1C41", "U+1C42", "U+1C43", "U+1C44", "U+1C45", "U+1C46", "U+1C47",
     "U+1C48", "U+1C49", "U+1C50", "U+1C51", "U+1C52", "U+1C53", "U+1C54",
     "U+1C55", "U+1C56", "U+1C57", "U+1C58", "U+1C59", "U+A620", "U+A621",
     "U+A622", "U+A623", "U+A624", "U+A625", "U+A626", "U+A627", "U+A628",
     "U+A629", "U+A8D0", "U+A8D1", "U+A8D2", "U+A8D3", "U+A8D4", "U+A8D5",
     "U+A8D6", "U+A8D7", "U+A8D8", "U+A8D9", "U+A900", "U+A901", "U+A902",
     "U+A903", "U+A904", "U+A905", "U+A906", "U+A907", "U+A908", "U+A909",
     "U+A9D0", "U+A9D1", "U+A9D2", "U+A9D3", "U+A9D4", "U+A9D5", "U+A9D6",
     "U+A9D7", "U+A9D8", "U+A9D9", "U+A9F0", "U+A9F1", "U+A9F2", "U+A9F3",
     "U+A9F4", "U+A9F5", "U+A9F6", "U+A9F7", "U+A9F8", "U+A9F9", "U+AA50",
     "U+AA51", "U+AA52", "U+AA53", "U+AA54", "U+AA55", "U+AA56", "U+AA57",
     "U+AA58", "U+AA59", "U+ABF0", "U+ABF1", "U+ABF2", "U+ABF3", "U+ABF4",
     "U+ABF5", "U+ABF6", "U+ABF7", "U+ABF8", "U+ABF9", "U+FF10", "U+FF11",
     "U+FF12", "U+FF13", "U+FF14", "U+FF15", "U+FF16", "U+FF17", "U+FF18",
     "U+FF19", "U+104A0", "U+104A1", "U+104A2", "U+104A3", "U+104A4",
     "U+104A5", "U+104A6", "U+104A7", "U+104A8", "U+104A9", "U+10D30",
     "U+10D31", "U+10D32", "U+10D33", "U+10D34", "U+10D35", "U+10D36",
     "U+10D37", "U+10D38", "U+10D39", "U+11066", "U+11067", "U+11068",
     "U+11069", "U+1106A", "U+1106B", "U+1106C", "U+1106D", "U+1106E",
     "U+1106F", "U+110F0", "U+110F1", "U+110F2", "U+110F3", "U+110F4",
     "U+110F5", "U+110F6", "U+110F7", "U+110F8", "U+110F9", "U+11136",
     "U+11137", "U+11138", "U+11139", "U+1113A", "U+1113B", "U+1113C",
     "U+1113D", "U+1113E", "U+1113F", "U+111D0", "U+111D1", "U+111D2",
     "U+111D3", "U+111D4", "U+111D5", "U+111D6", "U+111D7", "U+111D8",
     "U+111D9", "U+112F0", "U+112F1", "U+112F2", "U+112F3", "U+112F4",
     "U+112F5", "U+112F6", "U+112F7", "U+112F8", "U+112F9", "U+11450",
     "U+11451", "U+11452", "U+11453", "U+11454", "U+11455", "U+11456",
     "U+11457", "U+11458", "U+11459", "U+114D0", "U+114D1", "U+114D2",
     "U+114D3", "U+114D4", "U+114D5", "U+114D6", "U+114D7", "U+114D8",
     "U+114D9", "U+11650", "U+11651", "U+11652", "U+11653", "U+11654",
     "U+11655", "U+11656", "U+11657", "U+11658", "U+11659", "U+116C0",
     "U+116C1", "U+116C2", "U+116C3", "U+116C4", "U+116C5", "U+116C6",
     "U+116C7", "U+116C8", "U+116C9", "U+11730", "U+11731", "U+11732",
     "U+11733", "U+11734", "U+11735", "U+11736", "U+11737", "U+11738",
     "U+11739", "U+118E0", "U+118E1", "U+118E2", "U+118E3", "U+118E4",
     "U+118E5", "U+118E6", "U+118E7", "U+118E8", "U+118E9", "U+11950",
     "U+11951", "U+11952", "U+11953", "U+11954", "U+11955", "U+11956",
     "U+11957", "U+11958", "U+11959", "U+11C50", "U+11C51", "U+11C52",
     "U+11C53", "U+11C54", "U+11C55", "U+11C56", "U+11C57", "U+11C58",
     "U+11C59", "U+11D50", "U+11D51", "U+11D52", "U+11D53", "U+11D54",
     "U+11D55", "U+11D56", "U+11D57", "U+11D58", "U+11D59", "U+11DA0",
     "U+11DA1", "U+11DA2", "U+11DA3", "U+11DA4", "U+11DA5", "U+11DA6",
     "U+11DA7", "U+11DA8", "U+11DA9", "U+16A60", "U+16A61", "U+16A62",
     "U+16A63", "U+16A64", "U+16A65", "U+16A66", "U+16A67", "U+16A68",
     "U+16A69", "U+16AC0", "U+16AC1", "U+16AC2", "U+16AC3", "U+16AC4",
     "U+16AC5", "U+16AC6", "U+16AC7", "U+16AC8", "U+16AC9", "U+16B50",
     "U+16B51", "U+16B52", "U+16B53", "U+16B54", "U+16B55", "U+16B56",
     "U+16B57", "U+16B58", "U+16B59", "U+1D7CE", "U+1D7CF", "U+1D7D0",
     "U+1D7D1", "U+1D7D2", "U+1D7D3", "U+1D7D4", "U+1D7D5", "U+1D7D6",
     "U+1D7D7", "U+1D7D8", "U+1D7D9", "U+1D7DA", "U+1D7DB", "U+1D7DC",
     "U+1D7DD", "U+1D7DE", "U+1D7DF", "U+1D7E0", "U+1D7E1", "U+1D7E2",
     "U+1D7E3", "U+1D7E4", "U+1D7E5", "U+1D7E6", "U+1D7E7", "U+1D7E8",
     "U+1D7E9", "U+1D7EA", "U+1D7EB", "U+1D7EC", "U+1D7ED", "U+1D7EE",
     "U+1D7EF", "U+1D7F0", "U+1D7F1", "U+1D7F2", "U+1D7F3", "U+1D7F4",
     "U+1D7F5", "U+1D7F6", "U+1D7F7", "U+1D7F8", "U+1D7F9", "U+1D7FA",
     "U+1D7FB", "U+1D7FC", "U+1D7FD", "U+1D7FE", "U+1D7FF", "U+1E140",
     "U+1E141", "U+1E142", "U+1E143", "U+1E144", "U+1E145", "U+1E146",
     "U+1E147", "U+1E148", "U+1E149", "U+1E2F0", "U+1E2F1", "U+1E2F2",
     "U+1E2F3", "U+1E2F4", "U+1E2F5", "U+1E2F6", "U+1E2F7", "U+1E2F8",
     "U+1E2F9", "U+1E950", "U+1E951", "U+1E952", "U+1E953", "U+1E954",
     "U+1E955", "U+1E956", "U+1E957", "U+1E958", "U+1E959", "U+1FBF0",
     "U+1FBF1", "U+1FBF2", "U+1FBF3", "U+1FBF4", "U+1FBF5", "U+1FBF6",
     "U+1FBF7", "U+1FBF8", "U+1FBF9"}

\* An upper-case letter str.lower() leaves as it is (there are 471).
UpperKept == {"U+03D2"}

\* The other characters of the class \w: below 256 the letters that are the
\* lower case of none and the numeric characters; above, two letters without
\* case and the upper-case letter str.lower() leaves.
OtherWordChars ==
    {"ª", "²", "³", "µ", "¹", "º", "¼", "½", "¾", "ß", "U+4E2D", "U+0627"}
        \cup UpperKept

\* The class \s of a str pattern, which is also what str.split() and
\* str.strip() cut at: the whitespace of Unicode (str.isspace).
WhiteSpace ==
    {"\t", "\n", "", "\f", "\r", "", "", "", "", " ", "", " ",
     "U+1680", "U+2000", "U+2001", "U+2002", "U+2003", "U+2004", "U+2005",
     "U+2006", "U+2007", "U+2008", "U+2009", "U+200A", "U+2028", "U+2029",
     "U+202F", "U+205F", "U+3000"}

Range(s) == {s[i] : i \in 1..Len(s)}

\* What str.lower() makes of each character it changes.
ToLower ==
    [c \in Range(UpperCase) |->
        LowerCase[CHOOSE i \in 1..Len(UpperCase) : UpperCase[i] = c]]

\* str.lower(), character by character.
Lower(c) == IF c \in DOMAIN ToLower THEN ToLower[c] ELSE c

\* The class \w of a str pattern: letters, digits, numeric characters and
\* the underscore.
WordChars ==
    Range(UpperCase) \cup Range(LowerCase) \cup Digits \cup OtherWordChars
        \cup {"_"}

IsWordChar(c) == c \in WordChars

\* The class \s, which is also what str.split() and str.strip() cut at.
IsSpace(c) == c \in WhiteSpace

\* str(n) for n >= 0.
DigitSeq == <<"0", "1", "2", "3", "4", "5", "6", "7", "8", "9">>

RECURSIVE IntToStr(_)
IntToStr(n) ==
    IF n < 10 THEN <<DigitSeq[n + 1]>>
    ELSE IntToStr(n \div 10) \o <<DigitSeq[(n % 10) + 1]>>

\* s.rfind(c): the last position of c in s, 0 when there is none
\* (positions count from 1 here, from 0 in the program).
RFind(s, c) ==
    IF c \in Range(s)
    THEN CHOOSE i \in 1..Len(s) :
            s[i] = c /\ \A j \in (i + 1)..Len(s) : s[j] # c
    ELSE 0

StartsWith(s, p) == Len(s) >= Len(p) /\ SubSeq(s, 1, Len(p)) = p

(***************************************************************************)
(* os.path on POSIX.                                                       *)
(***************************************************************************)
RECURSIVE RStripSlash(_)
RStripSlash(s) ==
    IF s # <<>> /\ s[Len(s)] = "/" THEN RStripSlash(SubSeq(s, 1, Len(s) - 1))
    ELSE s

\* os.path.basename(p): what follows the last slash.
basename(p) == SubSeq(p, RFind(p, "/") + 1, Len(p))

\* os.path.dirname(p): what precedes the last slash, without trailing
\* slashes unless it is made of slashes only.
dirname(p) ==
    LET head == SubSeq(p, 1, RFind(p, "/"))
    IN  IF head # <<>> /\ Range(head) # {"/"} THEN RStripSlash(head) ELSE head

\* os.path.splitext(p)[1]: from the last dot of the last component on, unless
\* that component has only dots before it.
extension(p) ==
    LET sep == RFind(p, "/")
        dot == RFind(p, ".")
    IN  IF dot > sep /\ \E i \in (sep + 1)..(dot - 1) : p[i] # "."
        THEN SubSeq(p, dot, Len(p))
        ELSE <<>>

\* os.path.join(a, b).
join(a, b) ==
    IF b # <<>> /\ b[1] = "/" THEN b
    ELSE IF a = <<>> \/ a[Len(a)] = "/" THEN a \o b
    ELSE a \o <<"/">> \o b

(***************************************************************************)
(* The filename matcher: SCREENSHOT_PATTERN.match(filename).               *)
(***************************************************************************)
ScreenshotPrefix == <<"S", "c", "r", "e", "e", "n", "s", "h", "o", "t", " ">>

PngSuffix == <<".", "p", "n", "g">>

\* A pattern without the prefix and the date: ".png" somewhere in the name.
PNG_PATTERN(name) ==
    \E k \in 1..(Len(name) - 3) : SubSeq(name, k, k + 3) = PngSuffix

\* Screenshot \d{4}-\d{2}-\d{2}.*\.png matched at the start of the name:
\* the prefix, the date, then any characters but a newline, then ".png"
\* somewhere (match() does not anchor the end).
SCREENSHOT_PATTERN(name) ==
    LET n == Len(ScreenshotPrefix)
    IN  /\ StartsWith(name, ScreenshotPrefix)
        /\ Len(name) >= n + 10
        /\ \A i \in {1, 2, 3, 4, 6, 7, 9, 10} : name[n + i] \in Digits
        /\ name[n + 5] = "-"
        /\ name[n + 8] = "-"
        /\ \E k \in (n + 11)..(Len(name) - 3) :
              /\ SubSeq(name, k, k + 3) = PngSuffix
              /\ \A j \in (n + 11)..(k - 1) : name[j] # "\n"

(***************************************************************************)
(* The name sanitizer of get_ai_filename.                                  *)
(***************************************************************************)
stop_words ==
    { <<"a">>, <<"a", "n">>, <<"t", "h", "e">>, <<"i", "m", "a", "g", "e">>,
      <<"o", "f">>, <<"s", "c", "r", "e", "e", "n", "s", "h", "o", "t">>,
      <<"s", "h", "o", "w", "i", "n", "g">>, <<"w", "i", "t", "h">>,
      <<"i", "s">>, <<"i", "n">>, <<"o", "n">>, <<"a", "t">>, <<"t", "o">>,
      <<"t", "h", "i", "s">> }

unknown_screenshot ==
    <<"u", "n", "k", "n", "o", "w", "n", "_",
      "s", "c", "r", "e", "e", "n", "s", "h", "o", "t">>

\* str.strip(): without leading and trailing whitespace.
RECURSIVE Strip(_)
Strip(s) ==
    IF s = <<>> THEN s
    ELSE IF IsSpace(s[1]) THEN Strip(Tail(s))
    ELSE IF IsSpace(s[Len(s)]) THEN Strip(SubSeq(s, 1, Len(s) - 1))
    ELSE s

LowerStr(s) == [i \in 1..Len(s) |-> Lower(s[i])]

\* No character removed.
RemoveNothing(s) == s

\* re.sub(r'[^\w\s]', '', s)
RemoveNonAlnum(s) == SelectSeq(s, LAMBDA c : IsWordChar(c) \/ IsSpace(c))

\* str.split(): the maximal runs of non-whitespace characters.
RECURSIVE SplitFrom(_, _, _)
SplitFrom(s, i, word) ==
    IF i > Len(s) THEN (IF word = <<>> THEN <<>> ELSE <<word>>)
    ELSE IF IsSpace(s[i])
         THEN (IF word = <<>> THEN <<>> ELSE <<word>>) \o SplitFrom(s, i + 1, <<>>)
         ELSE SplitFrom(s, i + 1, Append(word, s[i]))

Split(s) == SplitFrom(s, 1, <<>>)

\* ws[:4]
First4(ws) == SubSeq(ws, 1, IF Len(ws) < 4 THEN Len(ws) ELSE 4)

\* "_".join(ws)
RECURSIVE JoinWords(_)
JoinWords(ws) ==
    IF ws = <<>> THEN <<>>
    ELSE IF Len(ws) = 1 THEN ws[1]
    ELSE ws[1] \o <<"_">> \o JoinWords(Tail(ws))

\* Lines 105-123: the name derived from the text of the response.
Sanitize(content) ==
    LET description == Strip(content)
        clean == RemoveNonAlnum(LowerStr(description))
        words == Split(clean)
        keywords == SelectSeq(words, LAMBDA w : w \notin stop_words)
        final_words == IF keywords # <<>> THEN First4(keywords) ELSE First4(words)
        clean_name == JoinWords(final_words)
    IN  IF clean_name # <<>> THEN clean_name ELSE unknown_screenshot

(***************************************************************************)
(* Program constants and the inputs of the exploration.                    *)
(***************************************************************************)
\* ThreadPoolExecutor(max_workers=3)
max_workers == 3
\* wait_for_file_ready(self, filepath, timeout=10)
timeout == 10
\* time.sleep(1) in the polling loop: the least duration of one iteration.
poll_sleep == 1

WATCH_FOLDER == <<"/", "d">>

\* Two files of the watched folder whose names match the pattern.
Shot1 ==
    <<"/", "d", "/", "S", "c", "r", "e", "e", "n", "s", "h", "o", "t", " ",
      "2", "0", "2", "4", "-", "0", "6", "-", "0", "1", ".", "p", "n", "g">>

Shot2 ==
    <<"/", "d", "/", "S", "c", "r", "e", "e", "n", "s", "h", "o", "t", " ",
      "2", "0", "2", "4", "-", "0", "6", "-", "0", "2", ".", "p", "n", "g">>

Shots == {Shot1, Shot2}

\* A file of the watched folder whose name does not match.
OtherFile ==
    <<"/", "d", "/", "r", "e", "d", "_", "a", "p", "p", "l", "e", "_", "t",
      "a", "b", "l", "e", ".", "p", "n", "g">>

\* A directory of the watched folder whose name matches the pattern, and the
\* name it had before a move.
ShotDir ==
    <<"/", "d", "/", "S", "c", "r", "e", "e", "n", "s", "h", "o", "t", " ",
      "2", "0", "2", "4", "-", "0", "6", "-", "0", "3", ".", "p", "n", "g">>

OldDir == <<"/", "d", "/", "t", "m", "p">>

\* A text the inference service answers with.
AppleText ==
    <<"A", " ", "r", "e", "d", " ", "a", "p", "p", "l", "e", " ",
      "o", "n", " ", "a", " ", "t", "a", "b", "l", "e">>

Tasks == 1..MaxTasks

Sizes == 0..MaxSize

\* What one os.path.getsize call gives: a size, or an OSError.
SizeReads ==
    {[err |-> FALSE, size |-> s] : s \in Sizes} \cup {[err |-> TRUE, size |-> 0]}

\* No size was read yet.
NoRead == [err |-> TRUE, size |-> 0]

\* What ollama.chat gives: a response with text, a response of another shape
\* (response['message']['content'] raises), or a raised connection error.
ChatResults(text) ==
    { [kind |-> "text", content |-> text],
      [kind |-> "malformed", content |-> <<>>],
      [kind |-> "unavailable", content |-> <<>>] }

\* What the folder holds when the program starts: nothing, or the file
\* whose name does not match.
Folders == SUBSET {OtherFile}

\* The events the watcher delivers.  Screenshots appear under the names
\* above; the other file is moved onto a screenshot name, and a screenshot
\* onto the name of the other.
CreatedEvents ==
    {[src_path |-> p, dest_path |-> <<>>, is_directory |-> FALSE] :
        p \in Shots}
    \cup {[src_path |-> ShotDir, dest_path |-> <<>>, is_directory |-> TRUE]}

MovedEvents ==
    {[src_path |-> OtherFile, dest_path |-> p, is_directory |-> FALSE] :
        p \in Shots}
    \cup {[src_path |-> Shot1, dest_path |-> Shot2, is_directory |-> FALSE]}
    \cup {[src_path |-> OldDir, dest_path |-> ShotDir, is_directory |-> TRUE]}

\* The environments explored: pipelines followed poll by poll through the
\* whole timeout window; whole pipelines racing on a slow machine, where the
\* window holds two polls; and more files than workers on a stalled machine,
\* where one iteration takes the whole window.
Scenarios ==
    { [poll_seconds |-> poll_sleep, arrivals |-> WaitTasks],
      [poll_seconds |-> SlowPoll, arrivals |-> RaceTasks],
      [poll_seconds |-> timeout, arrivals |-> MaxTasks] }

(***************************************************************************)
(* The state.                                                              *)
(***************************************************************************)
VARIABLES
    fs,               \* the regular files of the watched folder (paths)
    work_queue,       \* the executor's queue: submitted tasks not yet started
    submitted,        \* how many tasks were submitted
    pc,               \* per task: where its process_file call stands
    filepath,         \* per task: the argument of process_file
    historical_size,  \* per task: wait_for_file_ready's local
    elapsed,          \* per task: time.time() - start_time
    new_name,         \* per task: what get_ai_filename returned
    new_path,         \* per task: rename_file's local
    counter,          \* per task: rename_file's local, 0 outside the call
    trace,            \* per task: what the pipeline did so far (history)
    last_read,        \* per task: what the latest getsize call gave, of the
                      \*   polls before the one that ended the wait (history,
                      \*   dropped when the wait fails)
    last_good,        \* per task: the latest size read, -1 if none, by the
                      \*   polls before the one that ended the wait (history,
                      \*   dropped when the wait fails)
    final_read,       \* per task: what the getsize call of the poll that
                      \*   ended the wait gave (history)
    poll_seconds,     \* the duration of one polling iteration
    arrivals,         \* how many matched events the environment delivers
    main,             \* the main thread: where it stands, the exit status of
                      \*   the process (-1 while it lives, -2 when SIGINT
                      \*   ended it), what the preflight checks found,
                      \*   whether the observer delivers events, and whether
                      \*   a KeyboardInterrupt went unhandled
    event_queue,      \* the observer's queue: the moved events caused by the
                      \*   program's own renames, not yet dispatched
    reply,            \* the text of a response of the inference service:
                      \*   what ollama.chat answers with, and the text
                      \*   handed to the sanitizer
    names,            \* what the sanitizer made of reply, and of that name
    source,           \* a source path handed to rename_file
    planned,          \* the destination rename_file computes for source
                      \*   and names[1]
    filename,         \* a basename handed to the matcher
    verdict           \* whether the matcher accepted filename

vars ==
    <<fs, work_queue, submitted, pc, filepath, historical_size, elapsed,
      new_name, new_path, counter, trace, last_read, last_good, final_read,
      poll_seconds, arrivals, main, event_queue,
      reply, names, source, planned, filename, verdict>>

poolVars == <<work_queue, submitted, pc, filepath>>

waitVars == <<historical_size, elapsed, last_read, last_good, final_read>>

envVars == <<poll_seconds, arrivals>>

\* The variables of the explorations of the pure functions.
fnVars == <<reply, names, source, planned, filename, verdict>>

ActiveStages ==
    {"wait", "describe", "chat", "plan", "probe", "rename1", "rename2", "notify",
     "done"}

\* The tasks a worker thread is executing process_file for.
Running == {t \in Tasks : pc[t] \in ActiveStages}

\* The main thread after observer.start(): both preflight checks passed.
Started ==
    [pc |-> "running", status |-> -1, reachable |-> TRUE, readable |-> TRUE,
     observing |-> TRUE, killed |-> FALSE]

\* The main thread when the process starts.
AtStart ==
    [pc |-> "preflight", status |-> -1, reachable |-> TRUE, readable |-> TRUE,
     observing |-> FALSE, killed |-> FALSE]

\* The process has not ended: its threads run.
Alive == main.pc # "exited"

\* The observer delivers events, and the executor takes what the handler
\* submits: from observer.start() until observer.stop() has been called or
\* the interpreter has begun to shut down.
Watching == main.observing

\* No function is being explored.
NoFunction ==
    /\ names = <<>>
    /\ source = <<>>
    /\ planned = <<>>
    /\ filename = <<>>
    /\ verdict = "none"

\* A handler just constructed: no task, no event.
Idle ==
    /\ work_queue = <<>>
    /\ submitted = 0
    /\ pc = [t \in Tasks |-> "none"]
    /\ filepath = [t \in Tasks |-> <<>>]
    /\ historical_size = [t \in Tasks |-> -1]
    /\ elapsed = [t \in Tasks |-> 0]
    /\ new_name = [t \in Tasks |-> <<>>]
    /\ new_path = [t \in Tasks |-> <<>>]
    /\ counter = [t \in Tasks |-> 0]
    /\ trace = [t \in Tasks |-> <<>>]
    /\ last_read = [t \in Tasks |-> NoRead]
    /\ last_good = [t \in Tasks |-> -1]
    /\ final_read = [t \in Tasks |-> NoRead]
    /\ event_queue = <<>>

\* The program once the observer runs, in one of the environments.
Init ==
    /\ fs \in Folders
    /\ Idle
    /\ main = Started
    /\ NoFunction
    /\ reply = AppleText
    /\ \E sc \in Scenarios :
          /\ poll_seconds = sc.poll_seconds
          /\ arrivals = sc.arrivals

(***************************************************************************)
(* The dispatcher: on_created, on_moved, check_and_process.                *)
(***************************************************************************)
\* The environment delivers at most `arrivals` files under a name that
\* matches.
Arrives(path) == SCREENSHOT_PATTERN(basename(path)) => submitted < arrivals

\* self.executor.submit(self.process_file, filepath, filename): the executor
\* takes every task; the tasks of one run are numbered up to MaxTasks.
Submit(path) ==
    /\ submitted < MaxTasks
    /\ submitted' = submitted + 1
    /\ work_queue' = Append(work_queue, submitted + 1)
    /\ pc' = [pc EXCEPT ![submitted + 1] = "queued"]
    /\ filepath' = [filepath EXCEPT ![submitted + 1] = path]

check_and_process(path) ==
    IF SCREENSHOT_PATTERN(basename(path))
    THEN Submit(path)
    ELSE UNCHANGED poolVars

\* A file or directory appears and the watcher reports it.
OnCreated ==
    \E event \in CreatedEvents :
        /\ event.is_directory \/ event.src_path \notin fs
        /\ fs' = IF event.is_directory THEN fs ELSE fs \cup {event.src_path}
        /\ IF event.is_directory \/ ~Watching
           THEN UNCHANGED poolVars
           ELSE Arrives(event.src_path) /\ check_and_process(event.src_path)
        /\ UNCHANGED <<waitVars, new_name, new_path, counter, trace, envVars,
                       main, event_queue, fnVars>>

\* A file or directory is moved inside the folder and the watcher reports it.
OnMoved ==
    \E event \in MovedEvents :
        /\ event.is_directory \/ event.src_path \in fs
        /\ fs' = IF event.is_directory THEN fs
                 ELSE (fs \ {event.src_path}) \cup {event.dest_path}
        /\ IF event.is_directory \/ ~Watching
           THEN UNCHANGED poolVars
           ELSE Arrives(event.dest_path) /\ check_and_process(event.dest_path)
        /\ UNCHANGED <<waitVars, new_name, new_path, counter, trace, envVars,
                       main, event_queue, fnVars>>

\* The observer reports a move the program made itself: on_moved with the
\* destination of the rename.
OnRenamed ==
    /\ Watching
    /\ event_queue # <<>>
    /\ LET event == Head(event_queue)
       IN  IF event.is_directory
           THEN UNCHANGED poolVars
           ELSE check_and_process(event.dest_path)
    /\ event_queue' = Tail(event_queue)
    /\ UNCHANGED <<fs, waitVars, new_name, new_path, counter, trace, envVars,
                   main, fnVars>>

(***************************************************************************)
(* The worker pool.                                                        *)
(***************************************************************************)
\* A pool that starts a thread for every submitted task.
PoolUnbounded == TRUE

\* The executor runs a queued task when fewer than max_workers are running.
PoolHasFreeWorker == Cardinality(Running) < max_workers

\* A worker takes the oldest queued task and enters process_file: the sleep
\* of three seconds, then wait_for_file_ready's first lines.
Start(t) ==
    /\ Alive
    /\ work_queue # <<>>
    /\ Head(work_queue) = t
    /\ PoolHasFreeWorker
    /\ work_queue' = Tail(work_queue)
    /\ pc' = [pc EXCEPT ![t] = "wait"]
    /\ historical_size' = [historical_size EXCEPT ![t] = -1]
    /\ elapsed' = [elapsed EXCEPT ![t] = 0]
    /\ UNCHANGED <<fs, submitted, filepath, new_name, new_path, counter, trace,
                   last_read, last_good, final_read, envVars,
                   main, event_queue, fnVars>>

\* process_file returned: the worker is free again.
Release(t) ==
    /\ Alive
    /\ pc[t] = "done"
    /\ pc' = [pc EXCEPT ![t] = "finished"]
    /\ filepath' = [filepath EXCEPT ![t] = <<>>]
    /\ new_name' = [new_name EXCEPT ![t] = <<>>]
    /\ new_path' = [new_path EXCEPT ![t] = <<>>]
    /\ counter' = [counter EXCEPT ![t] = 0]
    /\ trace' = [trace EXCEPT ![t] = <<>>]
    /\ historical_size' = [historical_size EXCEPT ![t] = -1]
    /\ elapsed' = [elapsed EXCEPT ![t] = 0]
    /\ last_read' = [last_read EXCEPT ![t] = NoRead]
    /\ last_good' = [last_good EXCEPT ![t] = -1]
    /\ final_read' = [final_read EXCEPT ![t] = NoRead]
    /\ UNCHANGED <<fs, work_queue, submitted, envVars,
                   main, event_queue, fnVars>>

(***************************************************************************)
(* process_file.                                                           *)
(***************************************************************************)
\* A try statement that ends before the call of rename_file.
TryBodyNarrow == {"describe", "chat"}

\* The stages the try statement of process_file encloses.
TryBody ==
    {"describe", "chat", "plan", "probe", "rename1", "rename2", "notify"}

\* An exception raised in a stage: logged by the except clause when the try
\* statement encloses the stage, leaving process_file otherwise.
Raised(t, stage, did) ==
    /\ pc' = [pc EXCEPT ![t] = "done"]
    /\ trace' = [trace EXCEPT ![t] =
                    @ \o did \o <<IF stage \in TryBody THEN "error" ELSE "escaped">>]

\* The result of the wait ignored.
AfterWaitIgnored(ready) == "describe"

\* if not self.wait_for_file_ready(filepath): ... return
AfterWait(ready) == IF ready THEN "describe" ELSE "done"

\* The comparison without the test for an empty file.
StableAllowsEmpty(current_size, historical) == current_size = historical

\* current_size == historical_size and current_size > 0
Stable(current_size, historical) ==
    current_size = historical /\ current_size > 0

\* The loop test taken to admit the instant the window closes.
LoopContinuesInclusive(seconds) == seconds <= timeout

\* while time.time() - start_time < timeout
LoopContinues(seconds) == seconds < timeout

\* One iteration of wait_for_file_ready's loop: getsize, the comparison, the
\* sleep and the loop test that follows it.  The local historical_size ends
\* with the call (it is reset when the function returns).
Poll(t) ==
    /\ Alive
    /\ pc[t] = "wait"
    /\ \E read \in SizeReads :
        /\ filepath[t] \notin fs => read.err
        /\ IF ~read.err /\ Stable(read.size, historical_size[t])
           THEN /\ pc' = [pc EXCEPT ![t] = AfterWait(TRUE)]
                /\ trace' = [trace EXCEPT ![t] = Append(@, "stable")]
                /\ final_read' = [final_read EXCEPT ![t] = read]
                /\ historical_size' = [historical_size EXCEPT ![t] = -1]
                /\ UNCHANGED <<elapsed, last_read, last_good>>
           ELSE /\ elapsed' = [elapsed EXCEPT ![t] = @ + poll_seconds]
                /\ IF LoopContinues(elapsed[t] + poll_seconds)
                   THEN /\ historical_size' = [historical_size EXCEPT ![t] =
                              IF read.err THEN @ ELSE read.size]
                        /\ last_read' = [last_read EXCEPT ![t] = read]
                        /\ last_good' = [last_good EXCEPT ![t] =
                              IF read.err THEN @ ELSE read.size]
                        /\ UNCHANGED <<pc, trace, final_read>>
                   ELSE /\ historical_size' = [historical_size EXCEPT ![t] = -1]
                        /\ pc' = [pc EXCEPT ![t] = AfterWait(FALSE)]
                        /\ trace' = [trace EXCEPT ![t] = Append(@, "timeout")]
                        /\ final_read' = [final_read EXCEPT ![t] = read]
                        /\ last_read' = [last_read EXCEPT ![t] = NoRead]
                        /\ last_good' = [last_good EXCEPT ![t] = -1]
    /\ UNCHANGED <<fs, work_queue, submitted, filepath, new_name, new_path, counter,
                   envVars, main, event_queue, fnVars>>

\* get_ai_filename, lines 81-92: the image is read.  open() or read()
\* raising OSError (the file is gone, or it is there and cannot be read:
\* permissions, an I/O error) gives the fallback name and no request; else
\* the thread holds the bytes and calls ollama.chat.
ReadImage(t) ==
    /\ Alive
    /\ pc[t] = "describe"
    /\ \E unreadable \in BOOLEAN :
        IF filepath[t] \notin fs \/ unreadable
        THEN /\ pc' = [pc EXCEPT ![t] = "plan"]
             /\ new_name' = [new_name EXCEPT ![t] = unknown_screenshot]
             /\ trace' = [trace EXCEPT ![t] = Append(@, "named")]
        ELSE /\ pc' = [pc EXCEPT ![t] = "chat"]
             /\ UNCHANGED <<new_name, trace>>
    /\ historical_size' = [historical_size EXCEPT ![t] = -1]
    /\ elapsed' = [elapsed EXCEPT ![t] = 0]
    /\ last_read' = [last_read EXCEPT ![t] = NoRead]
    /\ last_good' = [last_good EXCEPT ![t] = -1]
    /\ final_read' = [final_read EXCEPT ![t] = NoRead]
    /\ UNCHANGED <<fs, work_queue, submitted, filepath, new_path, counter, envVars,
                   main, event_queue, fnVars>>

\* get_ai_filename, lines 94-123: ollama.chat returns or raises, and the
\* sanitizer makes the name of the text.  The file was read before the
\* call: what became of it since does not matter.
ollama_chat(t) ==
    /\ Alive
    /\ pc[t] = "chat"
    /\ \E response \in ChatResults(reply) :
          IF response.kind = "text"
          THEN /\ new_name' = [new_name EXCEPT ![t] = Sanitize(response.content)]
               /\ pc' = [pc EXCEPT ![t] = "plan"]
               /\ trace' = [trace EXCEPT ![t] = @ \o <<"infer", "named">>]
          ELSE /\ Raised(t, "chat", <<"infer">>)
               /\ UNCHANGED new_name
    /\ UNCHANGED <<fs, work_queue, submitted, filepath, new_path, counter, waitVars,
                   envVars, main, event_queue, fnVars>>

get_ai_filename(t) == ReadImage(t) \/ ollama_chat(t)

\* Line 133: the path numbered counter.
Candidate(folder, name, ext, k) ==
    join(folder, name \o <<"_">> \o IntToStr(k) \o ext)

\* The existence test made once, as an if, not repeated as a while.
PickNewPathOnce(files, folder, name, ext, path, k) ==
    IF path \in files
    THEN Candidate(folder, name, ext, k)
    ELSE path

\* rename_file's loop in a folder nothing else changes: the first of
\* new_name + extension, new_name_1 + extension, new_name_2 + extension, ...
\* that does not exist.
RECURSIVE PickNewPath(_, _, _, _, _, _)
PickNewPath(files, folder, name, ext, path, k) ==
    IF path \in files
    THEN PickNewPath(files, folder, name, ext,
                     Candidate(folder, name, ext, k), k + 1)
    ELSE path

\* Lines 126-134: the destination for a source path and a name, among the
\* files of a folder nothing else changes.
PlannedPath(files, old_path, name) ==
    LET folder == dirname(old_path)
        ext == extension(old_path)
    IN  PickNewPath(files, folder, name, ext, join(folder, name \o ext), 1)

\* A test that creates the path it finds free, so that no other worker can
\* find it free too.
CreateExclusive(t, path) ==
    IF path \in fs
    THEN pc' = [pc EXCEPT ![t] = "probe"] /\ fs' = fs
    ELSE pc' = [pc EXCEPT ![t] = "rename1"] /\ fs' = fs \cup {path}

\* Line 132, one evaluation of the loop test: os.path.exists(new_path) is
\* one call to the system, made on the folder as it is at that moment; the
\* loop goes on when the path exists and ends when it does not.
os_path_exists(t, path) ==
    IF path \in fs
    THEN pc' = [pc EXCEPT ![t] = "probe"] /\ fs' = fs
    ELSE pc' = [pc EXCEPT ![t] = "rename1"] /\ fs' = fs

\* rename_file's lines 126-132: the first destination, the counter, and the
\* first evaluation of the loop test.
Plan(t) ==
    /\ Alive
    /\ pc[t] = "plan"
    /\ LET folder == dirname(filepath[t])
           ext == extension(filepath[t])
           path == join(folder, new_name[t] \o ext)
       IN  /\ new_path' = [new_path EXCEPT ![t] = path]
           /\ counter' = [counter EXCEPT ![t] = 1]
           /\ os_path_exists(t, path)
    /\ UNCHANGED <<work_queue, submitted, filepath, new_name, trace,
                   waitVars, envVars, main, event_queue, fnVars>>

\* One iteration of the loop, lines 133-134, and the evaluation of the loop
\* test that follows it.  Other threads and other processes run between two
\* iterations.
Probe(t) ==
    /\ Alive
    /\ pc[t] = "probe"
    /\ LET folder == dirname(filepath[t])
           ext == extension(filepath[t])
           path == Candidate(folder, new_name[t], ext, counter[t])
       IN  /\ new_path' = [new_path EXCEPT ![t] = path]
           /\ counter' = [counter EXCEPT ![t] = @ + 1]
           /\ os_path_exists(t, path)
    /\ UNCHANGED <<work_queue, submitted, filepath, new_name, trace,
                   waitVars, envVars, main, event_queue, fnVars>>

\* os.rename(old_path, new_path): fails when old_path does not exist, may
\* fail for a reason of the system's, and replaces new_path otherwise.
os_rename(t, stage, next) ==
    /\ Alive
    /\ pc[t] = stage
    /\ \E refused \in BOOLEAN :
        IF filepath[t] \in fs /\ ~refused
        THEN /\ fs' = (fs \ {filepath[t]}) \cup {new_path[t]}
             /\ event_queue' =
                    IF Watching
                    THEN Append(event_queue,
                            [src_path |-> filepath[t], dest_path |-> new_path[t],
                             is_directory |-> FALSE])
                    ELSE event_queue
             /\ pc' = [pc EXCEPT ![t] = next]
             /\ trace' = [trace EXCEPT ![t] = @ \o <<"rename", "moved">> \o
                             (IF next = "notify" THEN <<"returned">> ELSE <<>>)]
        ELSE /\ Raised(t, stage, <<"rename">>)
             /\ UNCHANGED <<fs, event_queue>>
    /\ UNCHANGED <<work_queue, submitted, filepath, new_name, new_path, counter,
                   waitVars, envVars, main, fnVars>>

\* Line 136.
Rename1(t) == os_rename(t, "rename1", "rename2")

\* Line 137, and rename_file's return.
Rename2(t) == os_rename(t, "rename2", "notify")

\* send_notification: the call is made; what osascript raises is swallowed.
Notify(t) ==
    /\ Alive
    /\ pc[t] = "notify"
    /\ \E osascript_failed \in BOOLEAN :
        /\ pc' = [pc EXCEPT ![t] = "done"]
        /\ trace' = [trace EXCEPT ![t] = Append(@, "notify")]
    /\ UNCHANGED <<fs, work_queue, submitted, filepath, new_name, new_path, counter,
                   waitVars, envVars, main, event_queue, fnVars>>

Worker(t) ==
    \/ Start(t)
    \/ Poll(t)
    \/ get_ai_filename(t)
    \/ Plan(t)
    \/ Probe(t)
    \/ Rename1(t)
    \/ Rename2(t)
    \/ Notify(t)
    \/ Release(t)

Next ==
    \/ OnCreated
    \/ OnMoved
    \/ OnRenamed
    \/ \E t \in Tasks : Worker(t)

Spec == Init /\ [][Next]_vars

(***************************************************************************)
(* The main program: preflight, the observer, the interrupt, the exit.     *)
(***************************************************************************)
\* A preflight without the test of the watched folder.
PreflightStatusNoAccess(reachable, readable) == IF ~reachable THEN 1 ELSE 0

\* Lines 150-159: the status the preflight exits with, 0 when it goes on.
\* ollama.list() raising gives exit(1); os.access(WATCH_FOLDER, os.R_OK)
\* failing gives exit(1).
PreflightStatus(reachable, readable) ==
    IF ~reachable THEN 1
    ELSE IF ~readable THEN 1
    ELSE 0

\* Lines 150-169: the two checks, then the handler is constructed and the
\* observer started.
Preflight ==
    /\ main.pc = "preflight"
    /\ \E reachable \in BOOLEAN, readable \in BOOLEAN :
          LET status == PreflightStatus(reachable, readable)
          IN  main' = [pc |-> IF status # 0 THEN "exited" ELSE "running",
                       status |-> IF status # 0 THEN status ELSE -1,
                       reachable |-> reachable,
                       readable |-> readable,
                       observing |-> status = 0,
                       killed |-> FALSE]
    /\ UNCHANGED <<fs, poolVars, waitVars, new_name, new_path, counter, trace, envVars,
                   event_queue, fnVars>>

\* Lines 170-173: SIGINT in the idle loop; the KeyboardInterrupt is caught
\* by the except clause, whose first call has not been made yet.
Interrupt ==
    /\ main.pc = "running"
    /\ main' = [main EXCEPT !.pc = "caught"]
    /\ UNCHANGED <<fs, poolVars, waitVars, new_name, new_path, counter, trace,
                   envVars, event_queue, fnVars>>

\* Line 174: observer.stop() ends the delivery of events (what was queued
\* is dropped).
ObserverStop ==
    /\ main.pc = "caught"
    /\ main' = [main EXCEPT !.pc = "stopped", !.observing = FALSE]
    /\ event_queue' = <<>>
    /\ UNCHANGED <<fs, poolVars, waitVars, new_name, new_path, counter, trace,
                   envVars, fnVars>>

\* Line 175: executor.shutdown(wait=False) returns at once and cancels
\* nothing: what is queued is still run.
ExecutorShutdown ==
    /\ main.pc = "stopped"
    /\ main' = [main EXCEPT !.pc = "joining"]
    /\ UNCHANGED <<fs, poolVars, waitVars, new_name, new_path, counter, trace,
                   envVars, event_queue, fnVars>>

\* Line 176: observer.join() returns, and the script is over.
ObserverJoin ==
    /\ main.pc = "joining"
    /\ main' = [main EXCEPT !.pc = "ended"]
    /\ UNCHANGED <<fs, poolVars, waitVars, new_name, new_path, counter, trace,
                   envVars, event_queue, fnVars>>

\* SIGINT outside the try statement of lines 170-172: during the preflight
\* (KeyboardInterrupt is no Exception, line 152 does not catch it), or while
\* line 174, 175 or 176 runs (inside the except clause, or after it).  The
\* KeyboardInterrupt is unhandled: the script is over, the calls not yet
\* made are never made, and the process is to end killed by SIGINT.
Unhandled ==
    /\ main.pc \in {"preflight", "caught", "stopped", "joining"}
    /\ main' = [main EXCEPT !.pc = "ended", !.killed = TRUE]
    /\ UNCHANGED <<fs, poolVars, waitVars, new_name, new_path, counter, trace,
                   envVars, event_queue, fnVars>>

\* The interpreter begins to shut down: from here a submission is refused
\* (RuntimeError in the observer's thread, which is a daemon and may not
\* have been stopped), and the interpreter joins the threads of the pool.
Finalize ==
    /\ main.pc = "ended"
    /\ main' = [main EXCEPT !.pc = "finalizing", !.observing = FALSE]
    /\ event_queue' = <<>>
    /\ UNCHANGED <<fs, poolVars, waitVars, new_name, new_path, counter, trace,
                   envVars, fnVars>>

\* The threads of the pool have work.
PoolBusy == Running # {} \/ work_queue # <<>>

\* The status the process ends with: 0, or killed by SIGINT after a
\* KeyboardInterrupt nothing handled (-2 is what the parent process reads).
ExitStatus == IF main.killed THEN -2 ELSE 0

\* The interpreter joins the threads of the pool before the process ends,
\* whatever shutdown was told about waiting, and whether shutdown was
\* called or not: left to itself the process ends when the pool has no
\* work.
ProcessExit ==
    /\ main.pc = "finalizing"
    /\ ~PoolBusy
    /\ main' = [main EXCEPT !.pc = "exited", !.status = ExitStatus]
    /\ UNCHANGED <<fs, poolVars, waitVars, new_name, new_path, counter, trace,
                   envVars, event_queue, fnVars>>

\* Another SIGINT while the interpreter joins the threads of the pool: the
\* KeyboardInterrupt raised in the join is reported and ignored, and the
\* process ends at once.  What was queued or running is abandoned where it
\* stands.
InterruptedJoin ==
    /\ main.pc = "finalizing"
    /\ PoolBusy
    /\ main' = [main EXCEPT !.pc = "exited", !.status = ExitStatus]
    /\ UNCHANGED <<fs, poolVars, waitVars, new_name, new_path, counter, trace,
                   envVars, event_queue, fnVars>>

\* The environment of the exploration of the main thread: a slow machine.
MainScenarios == { [poll_seconds |-> SlowPoll, arrivals |-> MainTasks] }

MainInit ==
    /\ fs \in Folders
    /\ Idle
    /\ main = AtStart
    /\ NoFunction
    /\ reply = AppleText
    /\ \E sc \in MainScenarios :
          /\ poll_seconds = sc.poll_seconds
          /\ arrivals = sc.arrivals

MainNext ==
    \/ Preflight
    \/ Interrupt
    \/ ObserverStop
    \/ ExecutorShutdown
    \/ ObserverJoin
    \/ Unhandled
    \/ Finalize
    \/ ProcessExit
    \/ InterruptedJoin
    \/ OnCreated
    \/ OnMoved
    \/ OnRenamed
    \/ \E t \in Tasks : Worker(t)

MainSpec == MainInit /\ [][MainNext]_vars

\* The threads of the pool are scheduled: a free worker takes the oldest
\* task, and a step that is the program's own or a call of the local
\* filesystem (the read of the image among them) is taken.  Nothing is
\* assumed of ollama.chat (line 94) and of subprocess.run (line 145): the
\* code sets no timeout on either, and a call that does not return keeps its
\* worker where it is, whatever becomes of the file meanwhile.
Scheduled ==
    \A t \in Tasks :
        /\ WF_vars(Start(t))
        /\ WF_vars(Poll(t))
        /\ WF_vars(ReadImage(t))
        /\ WF_vars(Plan(t))
        /\ WF_vars(Probe(t))
        /\ WF_vars(Rename1(t))
        /\ WF_vars(Rename2(t))
        /\ WF_vars(Release(t))

\* The pipelines of Spec with the threads of the pool scheduled.
FairSpec == Spec /\ Scheduled

(***************************************************************************)
(* The sanitizer and rename_file's path computation, applied to texts and  *)
(* source paths of every shape.                                            *)
(***************************************************************************)
\* Texts are made of at most MaxPieces of the pieces below.
\* What a description may hold: upper case, letters and digits outside
\* ASCII, stop words, underscores, path separators, dots, punctuation,
\* whitespace and control characters.
Pieces ==
    { <<"R", "e", "d", " ", "À", "p", "p", "l", "e", " ">>,
      <<"t", "h", "e", " ", "i", "m", "a", "g", "e", " ", "o", "f", " ">>,
      <<"a", " ", "s", "c", "r", "e", "e", "n", "s", "h", "o", "t">>,
      <<" ", "x", "_", "y", " ">>,
      <<".", ".", "/">>,
      <<"\\">>,
      <<"!", "!", "!", " ", "?", "?", "?", " ", ".", ".", ".">>,
      <<"\t", "", "">>,
      <<"_">>,
      <<"7", "U+0662", "U+03D2">> }

RECURSIVE Texts(_)
Texts(n) ==
    IF n = 0 THEN {<<>>}
    ELSE LET shorter == Texts(n - 1)
         IN  shorter \cup {t \o p : t \in shorter, p \in Pieces}

\* Paths of matched files: in a folder, in the root folder, and in a folder
\* with a dot in its name with something after ".png".
SourcePaths ==
    { <<"/", "d", "/", "S", "c", "r", "e", "e", "n", "s", "h", "o", "t", " ",
        "2", "0", "2", "4", "-", "0", "6", "-", "0", "1", ".", "p", "n", "g">>,
      <<"/", "S", "c", "r", "e", "e", "n", "s", "h", "o", "t", " ", "2", "0",
        "2", "4", "-", "0", "6", "-", "0", "1", ".", "p", "n", "g">>,
      <<"/", "d", ".", "v", "/", "S", "c", "r", "e", "e", "n", "s", "h", "o",
        "t", " ", "2", "0", "2", "4", "-", "0", "6", "-", "0", "1", ".", "p",
        "n", "g", ".", "t", "x", "t">> }

SanitizerInit ==
    /\ fs = {}
    /\ Idle
    /\ main = Started
    /\ poll_seconds = poll_sleep
    /\ arrivals = 0
    /\ reply \in Texts(MaxPieces)
    /\ source \in SourcePaths
    /\ names = <<>>
    /\ planned = <<>>
    /\ filename = <<>>
    /\ verdict = "none"

\* get_ai_filename's lines 105-123 on the text of a response.
Sanitized ==
    /\ names = <<>>
    /\ names' = <<Sanitize(reply)>>
    /\ UNCHANGED <<fs, poolVars, waitVars, new_name, new_path, counter, trace, envVars,
                   main, event_queue, reply, source, planned, filename, verdict>>

\* The same lines on the name they gave, taken as a description.
Resanitized ==
    /\ Len(names) = 1
    /\ names' = Append(names, Sanitize(names[1]))
    /\ UNCHANGED <<fs, poolVars, waitVars, new_name, new_path, counter, trace, envVars,
                   main, event_queue, reply, source, planned, filename, verdict>>

\* rename_file's lines 126-134 for the name, in a folder that holds any of
\* the first MaxTaken paths the loop tries.
Planned ==
    /\ Len(names) = 2
    /\ planned = <<>>
    /\ LET folder == dirname(source)
           ext == extension(source)
           tried == {join(folder, names[1] \o ext)} \cup
                    {Candidate(folder, names[1], ext, k) : k \in 1..(MaxTaken - 1)}
       IN  \E files \in SUBSET tried :
              /\ fs' = files
              /\ planned' = PlannedPath(files, source, names[1])
    /\ UNCHANGED <<poolVars, waitVars, new_name, new_path, counter, trace,
                   envVars, main, event_queue, reply, source, names, filename,
                   verdict>>

SanitizerNext == Sanitized \/ Resanitized \/ Planned

SanitizerSpec == SanitizerInit /\ [][SanitizerNext]_vars

(***************************************************************************)
(* The pipeline on responses of every shape: what becomes of the events    *)
(* the program's own renames cause.                                        *)
(***************************************************************************)
\* A response that repeats the name of a screenshot.
ShotText == basename(Shot1)

\* The texts the service answers with: nothing, each of the pieces, the
\* description of the apple, and the name of a screenshot.
Answers == Texts(1) \cup {AppleText, ShotText}

FeedbackInit ==
    /\ fs \in Folders
    /\ Idle
    /\ main = Started
    /\ NoFunction
    /\ reply \in Answers
    /\ poll_seconds = SlowPoll
    /\ arrivals = RaceTasks

\* The threads of the pool are scheduled as in FairSpec, and the observer's
\* thread, started at line 167, dispatches the events of its queue.
FeedbackSpec ==
    FeedbackInit /\ [][Next]_vars /\ Scheduled /\ WF_vars(OnRenamed)

(***************************************************************************)
(* The matcher, applied to basenames of every shape.                       *)
(***************************************************************************)
NameStarts ==
    { <<"S", "c", "r", "e", "e", "n", "s", "h", "o", "t", " ">>,
      <<"s", "c", "r", "e", "e", "n", "s", "h", "o", "t", " ">>,
      <<"S", "c", "r", "e", "e", "n", "s", "h", "o", "t", "_">>,
      <<" ", "S", "c", "r", "e", "e", "n", "s", "h", "o", "t", " ">>,
      <<"I", "M", "G", "_">> }

NameDates ==
    { <<"2", "0", "2", "4", "-", "0", "6", "-", "0", "1">>,
      <<"U+0662", "U+0660", "U+0662", "U+0664", "-", "0", "6", "-", "0", "1">>,
      <<"2", "0", "2", "4", "-", "6", "-", "1">>,
      <<"2", "0", "2", "4">>,
      <<>> }

NameMiddles ==
    { <<>>,
      <<" ", "a", "t", " ", "1", "0", ".", "3", "0", ".", "0", "0">>,
      <<"0", "0", "0", "1">>,
      <<"\n">> }

NameEnds ==
    { <<".", "p", "n", "g">>,
      <<".", "P", "N", "G">>,
      <<".", "p", "n", "g", ".", "t", "x", "t">>,
      <<".", "j", "p", "g">>,
      <<>> }

Basenames ==
    {a \o b \o c \o d :
        a \in NameStarts, b \in NameDates, c \in NameMiddles, d \in NameEnds}

MatcherInit ==
    /\ fs = {}
    /\ Idle
    /\ main = Started
    /\ poll_seconds = poll_sleep
    /\ arrivals = 0
    /\ reply = <<>>
    /\ source = <<>>
    /\ names = <<>>
    /\ planned = <<>>
    /\ filename \in Basenames
    /\ verdict = "none"

\* Line 39: SCREENSHOT_PATTERN.match(filename).
Matched ==
    /\ verdict = "none"
    /\ verdict' = IF SCREENSHOT_PATTERN(filename) THEN "accepted" ELSE "rejected"
    /\ UNCHANGED <<fs, poolVars, waitVars, new_name, new_path, counter, trace, envVars,
                   main, event_queue, reply, source, names, planned, filename>>

MatcherNext == Matched

MatcherSpec == MatcherInit /\ [][MatcherNext]_vars

(***************************************************************************)
(* Properties.                                                             *)
(***************************************************************************)
Has(tr, e) == e \in Range(tr)

Count(tr, e) == Cardinality({i \in 1..Len(tr) : tr[i] = e})

\* Every b of tr has an a before it.
Precedes(tr, a, b) ==
    \A i \in 1..Len(tr) : tr[i] = b => \E j \in 1..(i - 1) : tr[j] = a

Failed(t) == Has(trace[t], "timeout") \/ Has(trace[t], "error")

RedAppleTable ==
    <<"r", "e", "d", "_", "a", "p", "p", "l", "e", "_", "t", "a", "b", "l", "e">>

\* C1: a pipeline that renamed its file issued exactly one rename call.
C1_SingleRename ==
    \A t \in Tasks :
        Has(trace[t], "moved") => Count(trace[t], "rename") = 1

\* C2: a pipeline that has ended and renamed its file has called
\* send_notification (after the rename).
C2_RenamedThenNotified ==
    \A t \in Tasks :
        pc[t] = "done" /\ Has(trace[t], "moved")
            => /\ Has(trace[t], "notify")
               /\ Precedes(trace[t], "moved", "notify")

\* C3: when a pipeline has ended in failure (timeout or logged error) its
\* file was not renamed and is still at its original path.
C3_FailureLeavesFile ==
    \A t \in Tasks :
        pc[t] = "done" /\ Failed(t)
            => ~Has(trace[t], "moved") /\ filepath[t] \in fs

\* C4: no two workers execute process_file for the same source path at the
\* same time.
C4_OneWorkerPerPath ==
    \A t, u \in Running : t # u => filepath[t] # filepath[u]

\* C5: no exception leaves process_file; a pipeline that failed has ended
\* (its worker is about to be released) without a further stage.
C5_FailuresCaught ==
    \A t \in Tasks :
        /\ ~Has(trace[t], "escaped")
        /\ Failed(t) =>
              /\ pc[t] = "done"
              /\ trace[t][Len(trace[t])] \in {"timeout", "error"}

\* A rename call failed, was logged, and the pipeline ended.
C5_Witness ==
    \E t \in Tasks :
        /\ pc[t] = "done"
        /\ Has(trace[t], "rename")
        /\ trace[t][Len(trace[t])] = "error"

\* C6: at most max_workers pipelines execute at any time; a submission always
\* appends to the queue, whatever the pool's load; and every queued task is
\* eventually started.
C6_BoundedPool ==
    /\ [](Cardinality(Running) <= max_workers)
    /\ [][submitted' # submitted =>
            /\ submitted' = submitted + 1
            /\ work_queue' = Append(work_queue, submitted')
            /\ pc'[submitted'] = "queued"]_vars
    /\ \A t \in Tasks : (pc[t] = "queued") ~> (pc[t] \in ActiveStages)

\* All workers are busy and a task waits in the queue.
C6_Witness ==
    /\ Cardinality({t \in Tasks : pc[t] \in ActiveStages \ {"done"}}) = max_workers
    /\ work_queue # <<>>

\* C7: in every pipeline the request comes after a successful wait, the name
\* after the wait, every rename call after the name, rename_file's return
\* after a rename, the notification after that return; a wait that failed
\* is followed by nothing; and each stage is where its predecessors lead.
C7_StageOrder ==
    \A t \in Tasks :
        LET tr == trace[t]
        IN  /\ Precedes(tr, "stable", "infer")
            /\ Precedes(tr, "stable", "named")
            /\ Precedes(tr, "named", "rename")
            /\ Precedes(tr, "moved", "returned")
            /\ Precedes(tr, "returned", "notify")
            /\ Has(tr, "timeout") => tr = <<"timeout">>
            /\ pc[t] = "describe" => tr = <<"stable">>
            /\ pc[t] = "chat" => tr = <<"stable">>
            /\ pc[t] = "plan" => tr[Len(tr)] = "named"
            /\ pc[t] = "notify" => tr[Len(tr)] = "returned"

\* A pipeline went through every stage, up to the notification.
C7_Witness ==
    \E t \in Tasks :
        /\ pc[t] = "done"
        /\ Has(trace[t], "infer")
        /\ trace[t][Len(trace[t])] = "notify"

\* C8 as stated: the wait succeeds only when its last poll and the poll
\* before it both read a size, the same one, greater than zero.
C8_TwoConsecutivePolls ==
    \A t \in Tasks :
        pc[t] = "describe"
            => /\ ~final_read[t].err
               /\ ~last_read[t].err
               /\ final_read[t].size = last_read[t].size
               /\ final_read[t].size > 0

\* C8 amended: the wait succeeds only when its last poll read a size greater
\* than zero that is the size read by the latest earlier poll that read one
\* (the polls between the two failed).
C8_RepeatedSize ==
    \A t \in Tasks :
        pc[t] = "describe"
            => /\ ~final_read[t].err
               /\ final_read[t].size = last_good[t]
               /\ final_read[t].size > 0

\* The wait succeeded on a size read before and after a failed read.
C8_Witness ==
    \E t \in Tasks :
        /\ pc[t] = "describe"
        /\ last_read[t].err
        /\ final_read[t].size = last_good[t]

\* C9: the wait makes at most timeout / poll_sleep polls and is over once
\* the window has passed; a pipeline whose wait failed has ended with the
\* window passed, no request, no name, no rename plan and no rename call,
\* and, when it is the only pipeline so far, its file at the original path.
C9_UnstableFileAborts ==
    \A t \in Tasks :
        /\ elapsed[t] \div poll_seconds <= timeout \div poll_sleep
        /\ pc[t] = "wait" => elapsed[t] < timeout
        /\ Has(trace[t], "timeout") =>
              /\ trace[t] = <<"timeout">>
              /\ pc[t] = "done"
              /\ elapsed[t] >= timeout
              /\ new_name[t] = <<>>
              /\ new_path[t] = <<>>
              /\ submitted = 1 => filepath[t] \in fs

\* A wait failed after polls one second apart filled the window, the last
\* of them reading a size greater than zero of a file that is there (a size
\* that differs from the size read before, or the wait had succeeded).
C9_Witness ==
    \E t \in Tasks :
        /\ trace[t] = <<"timeout">>
        /\ poll_seconds = poll_sleep
        /\ elapsed[t] = timeout
        /\ ~final_read[t].err
        /\ final_read[t].size > 0
        /\ filepath[t] \in fs

RedApple == <<"r", "e", "d", "_", "à", "p", "p", "l", "e">>

\* The destination the contract describes, for the files of the folder, the
\* source path and the base name.
ExpectedDestination(files, old_path, base) ==
    LET folder == dirname(old_path)
        ext == extension(old_path)
        Numbered(k) == join(folder, base \o <<"_">> \o IntToStr(k) \o ext)
    IN  IF join(folder, base \o ext) \notin files
        THEN join(folder, base \o ext)
        ELSE Numbered(CHOOSE k \in 1..(Cardinality(files) + 1) :
                        /\ Numbered(k) \notin files
                        /\ \A j \in 1..(k - 1) : Numbered(j) \in files)

\* C10: for every content of the folder, the destination rename_file
\* computes is base + extension when that does not exist, else base_k +
\* extension for the least k >= 1 that does not exist; it names no file of
\* the folder.
C10_Destination ==
    planned # <<>>
        => /\ planned = ExpectedDestination(fs, source, names[1])
           /\ planned \notin fs

\* A destination was computed with the base name and its first numbered
\* variant both taken.
C10_Witness ==
    /\ reply =
          <<"R", "e", "d", " ", "À", "p", "p", "l", "e", " ">>
    /\ source = Shot1
    /\ fs = { join(WATCH_FOLDER, RedApple \o PngSuffix),
              join(WATCH_FOLDER, RedApple \o <<"_", "1">> \o PngSuffix) }
    /\ planned = join(WATCH_FOLDER, RedApple \o <<"_", "2">> \o PngSuffix)

\* C11: a step of a pipeline changes the folder only by a rename, and a
\* rename moves the source to a path of the same directory with the same
\* extension and touches no other file: the destination named no file (no
\* file was replaced), and every other file is where it was.
C11_RenameInPlace ==
    [][\A t \in Tasks :
          pc[t] \in ActiveStages /\ pc'[t] # pc[t]
              => IF Count(trace'[t], "moved") > Count(trace[t], "moved")
                 THEN /\ dirname(new_path[t]) = dirname(filepath[t])
                      /\ extension(new_path[t]) = extension(filepath[t])
                      /\ new_path[t] \notin fs
                      /\ fs' = (fs \ {filepath[t]}) \cup {new_path[t]}
                 ELSE fs' = fs]_vars

\* The parts of a name between its underscores.
RECURSIVE FieldsFrom(_, _, _)
FieldsFrom(s, i, field) ==
    IF i > Len(s) THEN <<field>>
    ELSE IF s[i] = "_" THEN <<field>> \o FieldsFrom(s, i + 1, <<>>)
    ELSE FieldsFrom(s, i + 1, Append(field, s[i]))

Fields(s) == FieldsFrom(s, 1, <<>>)

\* A letter or digit that is not an upper-case letter.
IsLowerAlnum(c) ==
    IsWordChar(c) /\ c # "_" /\ c \notin DOMAIN ToLower \cup UpperKept

\* A name of at most four tokens joined by underscores, each token not empty
\* and of lowercase letters and digits only.
WellFormedName(name) ==
    /\ Len(Fields(name)) <= 4
    /\ \A i \in 1..Len(Fields(name)) :
          /\ Fields(name)[i] # <<>>
          /\ \A j \in 1..Len(Fields(name)[i]) : IsLowerAlnum(Fields(name)[i][j])

\* C12: the name the sanitizer gives for a text is the fallback literal or
\* at most four tokens joined by underscores, each token not empty and made
\* of lowercase letters and digits only.
C12_AlnumTokens ==
    Len(names) >= 1
        => names[1] = unknown_screenshot \/ WellFormedName(names[1])

\* A letter or a digit.  The underscore is neither.
Alphanumerics ==
    Range(UpperCase) \cup Range(LowerCase) \cup Digits \cup OtherWordChars

\* The stop words the contract enumerates.
ContractStopWords ==
    { <<"a">>, <<"a", "n">>, <<"t", "h", "e">>, <<"i", "m", "a", "g", "e">>,
      <<"o", "f">>,
      <<"s", "c", "r", "e", "e", "n", "s", "h", "o", "t">>,
      <<"s", "h", "o", "w", "i", "n", "g">>, <<"w", "i", "t", "h">>,
      <<"i", "s">>, <<"i", "n">>, <<"o", "n">>, <<"a", "t">>, <<"t", "o">>,
      <<"t", "h", "i", "s">> }

\* The tokens the contract describes, read off the text in one pass: a
\* letter or digit joins the current token, in lower case; whitespace ends
\* the token; every other character, the underscore among them, is dropped.
RECURSIVE AlnumTokens(_, _, _)
AlnumTokens(text, i, token) ==
    LET ended == IF token = <<>> THEN <<>> ELSE <<token>>
    IN  IF i > Len(text) THEN ended
        ELSE IF text[i] \in WhiteSpace
             THEN ended \o AlnumTokens(text, i + 1, <<>>)
        ELSE IF text[i] \in Alphanumerics
             THEN AlnumTokens(text, i + 1,
                      Append(token, IF text[i] \in DOMAIN ToLower
                                    THEN ToLower[text[i]] ELSE text[i]))
        ELSE AlnumTokens(text, i + 1, token)

\* The tokens of the contract that are not stop words, in their order.
KeptTokens(text) ==
    SelectSeq(AlnumTokens(text, 1, <<>>), LAMBDA w : w \notin ContractStopWords)

UpTo4(ws) == [i \in 1..(IF Len(ws) < 4 THEN Len(ws) ELSE 4) |-> ws[i]]

\* C13: the sanitizer gives a name for every text, never an empty one.  Its
\* parts between underscores are the first four alphanumeric tokens that are
\* not stop words, in their order, when there is one; else the first four
\* alphanumeric tokens; and a text with no alphanumeric token (empty, or
\* entirely non-alphanumeric) gets the fallback literal.
C13_TotalSanitizer ==
    Len(names) >= 1
        => /\ names[1] # <<>>
           /\ IF KeptTokens(reply) # <<>>
              THEN Fields(names[1]) = UpTo4(KeptTokens(reply))
              ELSE IF AlnumTokens(reply, 1, <<>>) # <<>>
              THEN Fields(names[1]) = UpTo4(AlnumTokens(reply, 1, <<>>))
              ELSE names[1] = unknown_screenshot

\* C14: the sanitizer applied to a name it gave yields a name of at most
\* four tokens that is that name or a prefix of it.
C14_Resanitize ==
    Len(names) = 2
        => /\ Len(Fields(names[2])) <= 4
           /\ StartsWith(names[1], names[2])

\* Characters that separate or climb paths, whitespace, control characters
\* and punctuation.
UnsafeChars ==
    {"/", "\\", ".", ":", "!", "?", "*", "\"", ""} \cup WhiteSpace

\* C15: the name the sanitizer gives holds no path separator, no dot, no
\* whitespace and no control character (only letters, digits and
\* underscores), so the path rename_file builds from it is an entry of the
\* source's directory: the name, a number after it when the name is taken,
\* and the source's extension.
C15_SafeName ==
    /\ Len(names) >= 1 =>
          /\ names[1] # <<>>
          /\ \A i \in 1..Len(names[1]) :
                names[1][i] \notin UnsafeChars /\ IsWordChar(names[1][i])
    /\ planned # <<>> =>
          /\ dirname(planned) = dirname(source)
          /\ "/" \notin Range(basename(planned))
          /\ basename(planned) \in
                {names[1] \o extension(source)} \cup
                {names[1] \o <<"_">> \o IntToStr(k) \o extension(source) :
                    k \in 1..MaxTaken}

\* A text that starts by climbing out of the folder was given a name, and
\* the destination is in the folder.
C15_Witness ==
    /\ reply =
          <<".", ".", "/", "R", "e", "d", " ", "À", "p", "p", "l", "e", " ">>
    /\ source = Shot1
    /\ fs = {}
    /\ planned = join(WATCH_FOLDER, RedApple \o PngSuffix)

\* The names the contract of the matcher describes: "Screenshot " at the
\* start, then a date DDDD-DD-DD, then any characters, and ".png" as the
\* extension of the name.
Described(name) ==
    LET n == Len(ScreenshotPrefix)
    IN  /\ StartsWith(name, ScreenshotPrefix)
        /\ Len(name) >= n + 10 + Len(PngSuffix)
        /\ \A i \in {1, 2, 3, 4, 6, 7, 9, 10} : name[n + i] \in Digits
        /\ name[n + 5] = "-"
        /\ name[n + 8] = "-"
        /\ extension(name) = PngSuffix

\* C16: the matcher accepts a basename exactly when it is one the contract
\* describes; a name that does not end in ".png" is rejected.
C16_MatcherContract ==
    verdict # "none" => (verdict = "accepted" <=> Described(filename))

\* C17: when the inference service is unreachable or the watched folder is
\* not readable the process has exited with a status other than zero and
\* the observer never ran: no task was submitted, no worker runs, nothing
\* was renamed; and nothing is dispatched before the preflight is over.
C17_PreflightAborts ==
    /\ ~main.reachable \/ ~main.readable =>
          /\ main.pc = "exited"
          /\ main.status > 0
    /\ main.pc = "preflight" \/ main.status > 0 =>
          /\ submitted = 0
          /\ work_queue = <<>>
          /\ event_queue = <<>>
          /\ \A t \in Tasks : pc[t] = "none" /\ trace[t] = <<>>
          /\ fs \subseteq Shots \cup {OtherFile}

\* The folder was not readable, the process exited with status 1, and a
\* screenshot that appeared afterwards stays as it is.
C17_Witness ==
    /\ main.reachable
    /\ ~main.readable
    /\ main.pc = "exited"
    /\ main.status = 1
    /\ Shot1 \in fs

\* C18: once the interrupt has been handled and the script is over, the
\* process can end by itself, with no further signal, whatever the pipelines
\* in flight or queued are doing (they are abandoned, the exit does not wait
\* for them).
C18_AbruptExit ==
    main.pc = "finalizing" => ENABLED ProcessExit

\* C19: every evaluation of rename_file's loop test looks at the folder as
\* it is at that moment and reserves nothing: the loop ends exactly when
\* the path tested names no file, whatever destinations other workers hold,
\* and the folder is left as it is; so two workers with different sources
\* and the same name can hold the same destination before either renames.
C19_CheckThenAct ==
    [][\A t \in Tasks :
          pc[t] \in {"plan", "probe"} /\ counter'[t] # counter[t]
              => /\ fs' = fs
                 /\ pc'[t] = "rename1" <=> new_path'[t] \notin fs
                 /\ pc'[t] = "probe" <=> new_path'[t] \in fs]_vars

\* Two workers with different sources, both there, are about to rename to
\* the same destination.
C19_Witness ==
    \E t, u \in Tasks :
        /\ pc[t] = "rename1"
        /\ pc[u] = "rename1"
        /\ filepath[t] # filepath[u]
        /\ filepath[t] \in fs
        /\ filepath[u] \in fs
        /\ new_path[t] = new_path[u]

\* What rename_file puts after the name: nothing, or _k.
Suffix(k) == IF k = 0 THEN <<>> ELSE <<"_">> \o IntToStr(k)

\* No name of the program's own leads back into the pipeline: every name
\* get_ai_filename returned, with the extension of the source and with or
\* without a suffix _k, fails the pattern; so does the destination every
\* rename_file call computed and the destination of every moved event a
\* rename caused; and the dispatch of such an event submits nothing.
NoFeedback ==
    /\ [](\A t \in Tasks :
             new_name[t] # <<>> =>
                \A k \in 0..MaxTaken :
                    ~SCREENSHOT_PATTERN(new_name[t] \o Suffix(k)
                                            \o extension(filepath[t])))
    /\ [](\A t \in Tasks :
             new_path[t] # <<>> => ~SCREENSHOT_PATTERN(basename(new_path[t])))
    /\ [](\A i \in 1..Len(event_queue) :
             ~SCREENSHOT_PATTERN(basename(event_queue[i].dest_path)))
    /\ [][event_queue # <<>> /\ event_queue' = Tail(event_queue)
             => UNCHANGED poolVars]_vars

\* Every ollama.chat call (line 94) and every subprocess.run call (line 145)
\* returns: no pipeline stays in get_ai_filename or in send_notification
\* for ever.
CallsReturn ==
    \A t \in Tasks : []<>(pc[t] # "chat") /\ []<>(pc[t] # "notify")

\* C20 as stated: no name of the program's own leads back into the
\* pipeline, and once the files are delivered the pool comes to rest: from
\* some point on no pipeline is queued or running.
C20_NoFeedback ==
    /\ NoFeedback
    /\ <>[](~PoolBusy)

\* C20: no name of the program's own leads back into the pipeline; and if
\* the calls of the inference service and of osascript return, the pool
\* comes to rest: from some point on no pipeline is queued or running and
\* no event of a rename waits to be dispatched.
C20_NoFeedbackIfCallsReturn ==
    /\ NoFeedback
    /\ CallsReturn => <>[](~PoolBusy /\ event_queue = <<>>)

\* The service answered with the name of a screenshot; the file was renamed
\* after it, the event of the rename was dispatched, and the one pipeline
\* there ever was is over.
C20_Witness ==
    \E t \in Tasks :
        /\ reply = ShotText
        /\ Has(trace[t], "infer")
        /\ Has(trace[t], "moved")
        /\ pc[t] = "done"
        /\ event_queue = <<>>
        /\ submitted = 1
        /\ work_queue = <<>>
        /\ new_path[t] \in fs
        /\ basename(new_path[t]) =
              <<"2", "0", "2", "4", "0", "6", "0", "1", "p", "n", "g",
                ".", "p", "n", "g">>

====
